---- MODULE Spec2Model ----
(***************************************************************************)
(* Model of src/new_program.py: a PySide6 front-end over a PostgreSQL      *)
(* schema (students, courses, enrollments) reached through SQLAlchemy.     *)
(*                                                                         *)
(* The state is the MainWindow controller (engine, md, tables, the three   *)
(* data tabs with their SATableModel projections, the SetupTab buttons)    *)
(* and the database the engine points at (which relations exist, their     *)
(* rows, their id sequences).  Every slot is one action; disconnect_db is  *)
(* split at its statements because its internal order is itself specified. *)
(* Slots run one at a time (single GUI thread); the slot methods are       *)
(* callable whatever the enablement of the button wired to them, so their  *)
(* own guards, not the buttons, decide what they do.                       *)
(***************************************************************************)
EXTENDS Integers, Sequences, FiniteSets, TLC

\* ------------------------------------------------------------------ bounds
\* Largest value an id sequence may hold when a statement that draws from it
\* is issued.
MaxSeq == 4
\* Number of engines make_engine may hand out in one run.
MaxEngines == 2
\* Number of statements the data tabs' slots may issue in one run.
MaxEdits == 2

\* ------------------------------------------------------------- basic values
\* Python's None / SQL NULL; a present value v is <<v>>.
None == <<>>
Some(v) == <<v>>

TableNames == {"students", "courses", "enrollments"}

\* ------------------------------------------------------------------ text
\* str.strip() on the texts the forms are fed with.
strip(s) ==
    CASE s = "  " -> ""
      [] s = " Bob Stone " -> "Bob Stone"
      [] OTHER -> s

\* PostgreSQL char_length() on the texts that occur.
char_length(s) ==
    CASE s = "" -> 0
      [] s = "Bo" -> 2
      [] s = "AR" -> 2
      [] s = "Art" -> 3
      [] s = "Math" -> 4
      [] s = "MATH1" -> 5
      [] s = "DB101" -> 5
      [] s = "ALG201" -> 6
      [] s = "PYDA301" -> 7
      [] s = "Bob Stone" -> 9
      [] s = "Eve Adams" -> 9
      [] s = "Ivan Petrov" -> 11
      [] s = "Anna Smirnova" -> 13
      [] s = "Jeanne d'Arc" -> 12
      [] OTHER -> 10

\* PostgreSQL position('@' in s) on the e-mail texts that occur (0: absent).
position_at(s) ==
    CASE s = "" -> 0
      [] s = "@example.com" -> 1
      [] s = "bo@example.com" -> 3
      [] s = "bob@example.com" -> 4
      [] s = "jeanne@example.com" -> 7
      [] s = "ivan.petrov@example.com" -> 12
      [] s = "anna.smirnova@example.com" -> 14
      [] OTHER -> 0

Terms == {"autumn", "spring", "summer", "winter"}

\* ---------------------------------------------------------------- schema
\* build_metadata: the relations, their primary keys and their constraints.
pk_col(t) ==
    CASE t = "students" -> "student_id"
      [] t = "courses" -> "course_id"
      [] t = "enrollments" -> "enrollment_id"

\* students: NOT NULL, chk_students_name, chk_students_email.
StudentChecks(r) ==
    /\ char_length(r.full_name) >= 3
    /\ position_at(r.email) > 1

\* courses: chk_courses_credits, chk_courses_code.
CourseChecks(r) ==
    /\ r.credits >= 1 /\ r.credits <= 10
    /\ char_length(r.code) >= 3

\* enrollments: chk_enr_term, chk_enr_grade.
EnrollmentChecks(r) ==
    /\ r.term \in Terms
    /\ (r.grade = None \/ (r.grade[1] >= 0 /\ r.grade[1] <= 100))

\* ------------------------------------------------------------- database
\* A database: the relations that exist, their rows, the next value of each
\* relation's id sequence.  A relation that does not exist has no rows and
\* its sequence is at its start.
EmptyRows == [students |-> {}, courses |-> {}, enrollments |-> {}]
StartSeq == [students |-> 1, courses |-> 1, enrollments |-> 1]

NoTables == [exists |-> {}, rows |-> EmptyRows, seq |-> StartSeq]

\* drop_all as it would be if only the dependent relation were dropped.
drop_all_dependents_only(d) ==
    [d EXCEPT !.exists = @ \ {"enrollments"},
              !.rows["enrollments"] = {},
              !.seq["enrollments"] = 1]

\* md.drop_all(engine): one transaction dropping every described relation
\* that exists (dependents first); the sequences go with their relations.
drop_all(d) ==
    [exists |-> d.exists \ TableNames, rows |-> EmptyRows, seq |-> StartSeq]

\* md.create_all(engine): one transaction creating every described relation
\* that does not exist yet (checkfirst), empty, with a fresh sequence.
create_all(d) ==
    [exists |-> d.exists \cup TableNames,
     rows |-> [t \in TableNames |-> IF t \in d.exists THEN d.rows[t] ELSE {}],
     seq |-> [t \in TableNames |-> IF t \in d.exists THEN d.seq[t] ELSE 1]]

\* What the server may do to a schema reset: nothing, or fail the drop_all
\* transaction, or fail the create_all transaction (lost connection, missing
\* privilege, lock timeout).
Faults == {"none", "drop", "create"}

\* drop_and_create_schema_sa: drop_all then create_all, each its own
\* transaction (Engine.begin()); any SQLAlchemyError gives False.
drop_and_create_schema_sa(d, fault) ==
    IF fault = "drop" THEN [ok |-> FALSE, db |-> d]
    ELSE IF fault = "create" THEN [ok |-> FALSE, db |-> drop_all(d)]
    ELSE [ok |-> TRUE, db |-> create_all(drop_all(d))]

\* The row an INSERT builds: the generated id and the given values.
NewRow(t, id, v) == (pk_col(t) :> id) @@ v

\* The constraints as they would be with no UNIQUE constraint besides the
\* primary keys.
RowAccepted_no_unique(d, t, r) ==
    CASE t = "students" ->
           /\ StudentChecks(r)
           /\ \A o \in d.rows["students"] : o.student_id # r.student_id
      [] t = "courses" ->
           /\ CourseChecks(r)
           /\ \A o \in d.rows["courses"] : o.course_id # r.course_id
      [] t = "enrollments" ->
           /\ EnrollmentChecks(r)
           /\ \E s \in d.rows["students"] : s.student_id = r.student_id
           /\ \E c \in d.rows["courses"] : c.course_id = r.course_id
           /\ \A o \in d.rows["enrollments"] : o.enrollment_id # r.enrollment_id

\* The constraints the server checks on a new row of relation t.
RowAccepted(d, t, r) ==
    CASE t = "students" ->
           /\ StudentChecks(r)
           /\ \A o \in d.rows["students"] :
                 o.student_id # r.student_id /\ o.email # r.email
      [] t = "courses" ->
           /\ CourseChecks(r)
           /\ \A o \in d.rows["courses"] :
                 o.course_id # r.course_id /\ o.code # r.code
      [] t = "enrollments" ->
           /\ EnrollmentChecks(r)
           /\ \E s \in d.rows["students"] : s.student_id = r.student_id
           /\ \E c \in d.rows["courses"] : c.course_id = r.course_id
           /\ \A o \in d.rows["enrollments"] :
                 /\ o.enrollment_id # r.enrollment_id
                 /\ ~(o.student_id = r.student_id /\ o.course_id = r.course_id
                      /\ o.term = r.term)

\* One INSERT statement of one row.  A missing relation is a
\* ProgrammingError; a rejected row is an IntegrityError and has already
\* drawn its id from the sequence (nextval is never rolled back).
InsertRow(d, t, v) ==
    IF t \notin d.exists THEN [ok |-> FALSE, err |-> "Programming", db |-> d]
    ELSE LET r == NewRow(t, d.seq[t], v)
             drawn == [d EXCEPT !.seq[t] = @ + 1]
         IN  IF RowAccepted(d, t, r)
             THEN [ok |-> TRUE, err |-> "",
                   db |-> [drawn EXCEPT !.rows[t] = @ \cup {r}]]
             ELSE [ok |-> FALSE, err |-> "Integrity", db |-> drawn]

\* conn.execute(table.insert(), [rows]): the rows in order, stopping at the
\* first one rejected.
RECURSIVE InsertMany(_, _, _)
InsertMany(d, t, vs) ==
    IF vs = <<>> THEN [ok |-> TRUE, err |-> "", db |-> d]
    ELSE LET one == InsertRow(d, t, Head(vs))
         IN  IF one.ok THEN InsertMany(one.db, t, Tail(vs)) ELSE one

\* Rollback as it would be with each statement committed on its own.
Rollback_nothing(before, now) == now

\* Leaving a `with engine.begin()` block on an exception: the rows are those
\* before the block; the sequences keep what was drawn.
Rollback(before, now) == [before EXCEPT !.seq = now.seq]

DemoStudents ==
    << [full_name |-> "Ivan Petrov", email |-> "ivan.petrov@example.com"],
       [full_name |-> "Anna Smirnova", email |-> "anna.smirnova@example.com"],
       [full_name |-> "Jeanne d'Arc", email |-> "jeanne@example.com"] >>

DemoCourses ==
    << [title |-> "Databases", credits |-> 5, code |-> "DB101"],
       [title |-> "Algorithms", credits |-> 6, code |-> "ALG201"],
       [title |-> "Python for data analysis", credits |-> 4, code |-> "PYDA301"] >>

\* The enrollments as they would be with the references counted from 0.
DemoEnrollments_from_zero ==
    << [student_id |-> 0, course_id |-> 0, term |-> "autumn", grade |-> Some(90)],
       [student_id |-> 0, course_id |-> 1, term |-> "autumn", grade |-> None],
       [student_id |-> 1, course_id |-> 0, term |-> "spring", grade |-> Some(78)] >>

DemoEnrollments ==
    << [student_id |-> 1, course_id |-> 1, term |-> "autumn", grade |-> Some(90)],
       [student_id |-> 1, course_id |-> 2, term |-> "autumn", grade |-> None],
       [student_id |-> 2, course_id |-> 1, term |-> "spring", grade |-> Some(78)] >>

\* insert_demo_data_sa: the three multi-row inserts in one transaction.
insert_demo_data_sa(d) ==
    LET s == InsertMany(d, "students", DemoStudents)
        c == InsertMany(s.db, "courses", DemoCourses)
        e == InsertMany(c.db, "enrollments", DemoEnrollments)
    IN  IF ~s.ok THEN [ok |-> FALSE, db |-> Rollback(d, s.db)]
        ELSE IF ~c.ok THEN [ok |-> FALSE, db |-> Rollback(d, c.db)]
        ELSE IF ~e.ok THEN [ok |-> FALSE, db |-> Rollback(d, e.db)]
        ELSE [ok |-> TRUE, db |-> e.db]

\* A single-row INSERT in its own transaction (the tabs' add_* slots).
InsertTx(d, t, v) ==
    LET one == InsertRow(d, t, v)
    IN  IF one.ok THEN one ELSE [one EXCEPT !.db = Rollback(d, one.db)]

\* DELETE as it would be with no foreign key on enrollments: only the rows
\* of t with the key go.
DeleteTx_no_foreign_keys(d, t, key) ==
    IF t \notin d.exists THEN [ok |-> FALSE, err |-> "Programming", db |-> d]
    ELSE [ok |-> TRUE, err |-> "",
          db |-> [d EXCEPT !.rows[t] = {r \in @ : Some(r[pk_col(t)]) # key}]]

\* DELETE FROM t WHERE pk = key in its own transaction.  key is what
\* pk_value_at gave: <<id>> or None (which matches no row).  Deleting a
\* student deletes its enrollments (ON DELETE CASCADE); deleting a course
\* that an enrollment references is refused (ON DELETE RESTRICT).
DeleteTx(d, t, key) ==
    IF t \notin d.exists THEN [ok |-> FALSE, err |-> "Programming", db |-> d]
    ELSE IF t = "students" THEN
        [ok |-> TRUE, err |-> "",
         db |-> [d EXCEPT
                   !.rows["students"] = {r \in @ : Some(r.student_id) # key},
                   !.rows["enrollments"] = {r \in @ : Some(r.student_id) # key}]]
    ELSE IF t = "courses" THEN
        IF \E e \in d.rows["enrollments"] : Some(e.course_id) = key
        THEN [ok |-> FALSE, err |-> "Integrity", db |-> d]
        ELSE [ok |-> TRUE, err |-> "",
              db |-> [d EXCEPT
                        !.rows["courses"] = {r \in @ : Some(r.course_id) # key}]]
    ELSE [ok |-> TRUE, err |-> "",
          db |-> [d EXCEPT
                    !.rows["enrollments"] = {r \in @ : Some(r.enrollment_id) # key}]]

\* SELECT * FROM t ORDER BY pk ASC, as a sequence of rows.
RECURSIVE OrderByPk(_, _)
OrderByPk(t, rs) ==
    IF rs = {} THEN <<>>
    ELSE LET first == CHOOSE r \in rs : \A o \in rs : r[pk_col(t)] <= o[pk_col(t)]
         IN  <<first>> \o OrderByPk(t, rs \ {first})

select_all(d, t) == OrderByPk(t, d.rows[t])

\* ----------------------------------------------------------- record store
\* pk_value_at as it would be with `row < len(self._rows)` as the only
\* test: a negative row then indexes the list from its end.
pk_value_at_from_end(rows, t, row) ==
    IF row < Len(rows) /\ 0 - Len(rows) <= row
    THEN Some(rows[(row % Len(rows)) + 1][pk_col(t)])
    ELSE None

\* SATableModel.pk_value_at on the held rows (row counts from 0).
pk_value_at(rows, t, row) ==
    IF 0 <= row /\ row < Len(rows) THEN Some(rows[row + 1][pk_col(t)]) ELSE None

\* SATableModel.refresh raises when its relation does not exist.
RefreshRaises(d, t) == t \notin d.exists

\* SATableModel.refresh: _rows becomes the relation read in primary-key
\* order; when the SELECT raises, _rows is left as it was.
refresh(model, d, t) == IF RefreshRaises(d, t) THEN model ELSE select_all(d, t)

\* EnrollmentsTab.refresh_combos: both combos are cleared, then filled with
\* the ids of the students and of the courses; a SQLAlchemyError is printed
\* and leaves what was filled so far.
TabRefreshCombos(tab, d) ==
    IF "students" \notin d.exists
    THEN [tab EXCEPT !.student_cb = {}, !.course_cb = {}]
    ELSE IF "courses" \notin d.exists
    THEN [tab EXCEPT !.student_cb = {r.student_id : r \in d.rows["students"]},
                     !.course_cb = {}]
    ELSE [tab EXCEPT !.student_cb = {r.student_id : r \in d.rows["students"]},
                     !.course_cb = {r.course_id : r \in d.rows["courses"]}]

\* The tabs' constructors (each builds its SATableModel, which refreshes).
NewStudentsTab(e, d) == [engine |-> e, model |-> select_all(d, "students")]
NewCoursesTab(e, d) == [engine |-> e, model |-> select_all(d, "courses")]
NewEnrollmentsTab(e, d) ==
    TabRefreshCombos([engine |-> e, model |-> select_all(d, "enrollments"),
                      student_cb |-> {}, course_cb |-> {}], d)

\* ------------------------------------------------------------- variables
VARIABLES
    db,                \* the database the connection parameters point at
    engine,            \* MainWindow.engine: None or <<handle>>
    md,                \* MainWindow.md
    tables,            \* MainWindow.tables
    students_tab,      \* MainWindow.students_tab: None or <<tab>>
    courses_tab,       \* MainWindow.courses_tab
    enrollments_tab,   \* MainWindow.enrollments_tab
    tabs,              \* MainWindow.tabs: the pages of the QTabWidget
    btn,               \* enablement of the four SetupTab buttons
    disposed,          \* the handles on which dispose() has been called
    made,              \* how many handles make_engine has returned
    pc,                \* where disconnect_db stands ("idle": no slot running)
    edits,             \* how many statements the data tabs' slots have issued
    last               \* the slot that ran last and what it reported

vars == <<db, engine, md, tables, students_tab, courses_tab, enrollments_tab,
          tabs, btn, disposed, made, pc, edits, last>>

widgets == <<students_tab, courses_tab, enrollments_tab, tabs>>
session == <<engine, md, tables, disposed, made>>

\* SetupTab.__init__ and disconnect_db: the buttons of "no connection".
ButtonsDisconnected ==
    [connect_btn |-> TRUE, disconnect_btn |-> FALSE,
     create_btn |-> FALSE, demo_btn |-> FALSE]

\* do_connect: the buttons after attach_engine.
ButtonsConnected ==
    [connect_btn |-> FALSE, disconnect_btn |-> TRUE,
     create_btn |-> TRUE, demo_btn |-> TRUE]

\* The databases a first connection may find: a relation that references
\* another exists only with it.
InitialDatabases ==
    { [exists |-> x, rows |-> EmptyRows, seq |-> StartSeq] :
        x \in { {}, {"students"}, {"courses"}, {"students", "courses"},
                TableNames } }

\* MainWindow.__init__.
Init ==
    /\ db \in InitialDatabases
    /\ engine = None /\ md = None /\ tables = None
    /\ students_tab = None /\ courses_tab = None /\ enrollments_tab = None
    /\ tabs = <<"setup">>
    /\ btn = ButtonsDisconnected
    /\ disposed = {}
    /\ made = 0
    /\ pc = "idle"
    /\ edits = 0
    /\ last = [op |-> "init", out |-> "done"]

\* MainWindow.refresh_combos on a value of enrollments_tab.
refresh_combos(etab, d) ==
    IF etab # None THEN Some(TabRefreshCombos(etab[1], d)) ELSE etab

\* One branch of MainWindow.refresh_all_models on a value of a tab attribute.
refresh_model(tab, d, t) ==
    IF tab # None THEN Some([tab[1] EXCEPT !.model = refresh(@, d, t)]) ELSE tab

\* MainWindow.ensure_data_tabs on w = the three tab attributes and the pages:
\* each missing tab is built and added in turn; a constructor that raises
\* ends the method with what was built before it.
ensure_data_tabs(w, e, tb, d) ==
    IF e = None \/ tb = None THEN [w |-> w, raised |-> FALSE]
    ELSE
    LET w1 == IF w.students_tab # None THEN w
              ELSE [w EXCEPT !.students_tab = Some(NewStudentsTab(e, d)),
                             !.tabs = Append(@, "students")]
        w2 == IF w1.courses_tab # None THEN w1
              ELSE [w1 EXCEPT !.courses_tab = Some(NewCoursesTab(e, d)),
                              !.tabs = Append(@, "courses")]
        w3 == IF w2.enrollments_tab # None THEN w2
              ELSE [w2 EXCEPT !.enrollments_tab = Some(NewEnrollmentsTab(e, d)),
                              !.tabs = Append(@, "enrollments")]
    IN  IF w.students_tab = None /\ RefreshRaises(d, "students")
        THEN [w |-> w, raised |-> TRUE]
        ELSE IF w1.courses_tab = None /\ RefreshRaises(d, "courses")
        THEN [w |-> w1, raised |-> TRUE]
        ELSE IF w2.enrollments_tab = None /\ RefreshRaises(d, "enrollments")
        THEN [w |-> w2, raised |-> TRUE]
        ELSE [w |-> [w3 EXCEPT !.enrollments_tab = refresh_combos(@, d)],
              raised |-> FALSE]

\* do_connect's test as it would be with the attribute name misspelt:
\* getattr then always gives its default, None.
AlreadyConnected_never == FALSE

\* reset_db's and add_demo's test as it would be with the early return
\* left out.
NoConnection_never == FALSE

\* do_connect's test `getattr(main, "engine", None) is not None`.
AlreadyConnected == engine # None

\* reset_db's and add_demo's test `getattr(main, "engine", None) is None`.
NoConnection == engine = None

\* SetupTab.do_connect.  up: whether make_engine (create_engine and its
\* SELECT 1) succeeds for the parameters typed in.
do_connect ==
    /\ pc = "idle"
    /\ IF AlreadyConnected
       THEN /\ last' = [op |-> "do_connect", out |-> "AlreadyConnected"]
            /\ UNCHANGED <<db, session, widgets, btn, pc, edits>>
       ELSE \E up \in BOOLEAN :
            IF ~up
            THEN /\ last' = [op |-> "do_connect", out |-> "ConnectError"]
                 /\ UNCHANGED <<db, session, widgets, btn, pc, edits>>
            ELSE /\ made < MaxEngines
                 /\ LET e == Some(made + 1)
                        tb == Some(TableNames)
                        r == ensure_data_tabs(
                                 [students_tab |-> students_tab,
                                  courses_tab |-> courses_tab,
                                  enrollments_tab |-> enrollments_tab,
                                  tabs |-> tabs], e, tb, db)
                    IN  /\ made' = made + 1
                        /\ engine' = e
                        /\ md' = Some("MetaData")
                        /\ tables' = tb
                        /\ btn' = ButtonsConnected
                        /\ students_tab' = r.w.students_tab
                        /\ courses_tab' = r.w.courses_tab
                        /\ enrollments_tab' = r.w.enrollments_tab
                        /\ tabs' = r.w.tabs
                        /\ last' = [op |-> "do_connect",
                                    out |-> IF r.raised THEN "ConnectError"
                                            ELSE "Connected"]
                 /\ UNCHANGED <<db, disposed, pc, edits>>

RemovePage(pages, name) == SelectSeq(pages, LAMBDA p : p # name)

\* remove_tabs as it would be with "students_tab" missing from the loop.
remove_tabs_but_students(w) ==
    [students_tab |-> w.students_tab, courses_tab |-> None, enrollments_tab |-> None,
     tabs |-> RemovePage(RemovePage(w.tabs,
                 IF w.enrollments_tab # None THEN "enrollments" ELSE ""),
                 IF w.courses_tab # None THEN "courses" ELSE "")]

\* disconnect_db's loop over ("enrollments_tab", "courses_tab",
\* "students_tab"): removeTab, deleteLater, setattr(self, attr, None).
remove_tabs(w) ==
    [students_tab |-> None, courses_tab |-> None, enrollments_tab |-> None,
     tabs |-> RemovePage(RemovePage(RemovePage(w.tabs,
                 IF w.enrollments_tab # None THEN "enrollments" ELSE ""),
                 IF w.courses_tab # None THEN "courses" ELSE ""),
                 IF w.students_tab # None THEN "students" ELSE "")]

\* SetupTab.do_disconnect entering MainWindow.disconnect_db and running its
\* loop over the tabs.
do_disconnect ==
    /\ pc = "idle"
    /\ LET w == remove_tabs([students_tab |-> students_tab,
                             courses_tab |-> courses_tab,
                             enrollments_tab |-> enrollments_tab,
                             tabs |-> tabs])
       IN  /\ students_tab' = w.students_tab
           /\ courses_tab' = w.courses_tab
           /\ enrollments_tab' = w.enrollments_tab
           /\ tabs' = w.tabs
    /\ pc' = "processEvents"
    /\ last' = [op |-> "do_disconnect", out |-> "running"]
    /\ UNCHANGED <<db, session, btn, edits>>

\* disconnect_db: QApplication.processEvents() (no slot is started from it:
\* requests are served one at a time), then
\* `if self.engine is not None: self.engine.dispose()`.
dispose ==
    /\ pc = "processEvents"
    /\ disposed' = IF engine # None THEN disposed \cup {engine[1]} ELSE disposed
    /\ pc' = "clear"
    /\ UNCHANGED <<db, engine, md, tables, made, widgets, btn, edits, last>>

\* clear_session as it would be without `self.tables = None`.
clear_session_keeps_tables ==
    /\ pc = "clear"
    /\ engine' = None /\ md' = None
    /\ btn' = ButtonsDisconnected
    /\ pc' = "idle"
    /\ last' = [op |-> "do_disconnect", out |-> "Closed"]
    /\ UNCHANGED <<db, tables, disposed, made, widgets, edits>>

\* disconnect_db: `self.engine = None; self.md = None; self.tables = None`
\* and the buttons; then do_disconnect logs that the connection is closed.
clear_session ==
    /\ pc = "clear"
    /\ engine' = None /\ md' = None /\ tables' = None
    /\ btn' = ButtonsDisconnected
    /\ pc' = "idle"
    /\ last' = [op |-> "do_disconnect", out |-> "Closed"]
    /\ UNCHANGED <<db, disposed, made, widgets, edits>>

\* MainWindow.refresh_all_models followed by MainWindow.refresh_combos, as
\* reset_db and add_demo call them after a success.
RefreshEverything(d) ==
    /\ students_tab' = refresh_model(students_tab, d, "students")
    /\ courses_tab' = refresh_model(courses_tab, d, "courses")
    /\ enrollments_tab' =
           refresh_combos(refresh_model(enrollments_tab, d, "enrollments"), d)

\* SetupTab.reset_db.  fault: what the server does to the two transactions.
reset_db ==
    /\ pc = "idle"
    /\ IF NoConnection
       THEN /\ last' = [op |-> "reset_db", out |-> "NoConnection"]
            /\ UNCHANGED <<db, session, widgets, btn, pc, edits>>
       ELSE \E fault \in Faults :
            LET r == drop_and_create_schema_sa(db, fault)
            IN  /\ db' = r.db
                /\ IF r.ok
                   THEN /\ last' = [op |-> "reset_db", out |-> "SchemaCreated"]
                        /\ RefreshEverything(r.db)
                   ELSE /\ last' = [op |-> "reset_db", out |-> "SchemaError"]
                        /\ UNCHANGED <<students_tab, courses_tab, enrollments_tab>>
                /\ UNCHANGED <<session, tabs, btn, pc, edits>>

\* A statement that draws from relation t's sequence is issued only while
\* the sequence is within the bound.
WithinBound(t) == t \in db.exists => db.seq[t] <= MaxSeq

\* SetupTab.add_demo.
add_demo ==
    /\ pc = "idle"
    /\ IF NoConnection
       THEN /\ last' = [op |-> "add_demo", out |-> "NoConnection"]
            /\ UNCHANGED <<db, session, widgets, btn, pc, edits>>
       ELSE /\ \A t \in TableNames : WithinBound(t)
            /\ LET r == insert_demo_data_sa(db)
               IN  /\ db' = r.db
                   /\ IF r.ok
                      THEN /\ last' = [op |-> "add_demo", out |-> "DemoAdded"]
                           /\ RefreshEverything(r.db)
                      ELSE /\ last' = [op |-> "add_demo", out |-> "DemoFailed"]
                           /\ UNCHANGED <<students_tab, courses_tab, enrollments_tab>>
            /\ UNCHANGED <<session, tabs, btn, pc, edits>>

\* What is typed into the students form.
StudentInputs ==
    { [full_name |-> "  ", email |-> "bob@example.com"],
      [full_name |-> " Bob Stone ", email |-> "bob@example.com"],
      [full_name |-> "Bo", email |-> "bo@example.com"],
      [full_name |-> "Eve Adams", email |-> "@example.com"],
      [full_name |-> "Ivan Petrov", email |-> "ivan.petrov@example.com"] }

\* What is typed into the courses form (the spin box keeps credits in 1..10).
CourseInputs ==
    { [title |-> "", code |-> "MATH1", credits |-> 1],
      [title |-> "Math", code |-> "MATH1", credits |-> 3],
      [title |-> "Art", code |-> "AR", credits |-> 10],
      [title |-> "Databases", code |-> "DB101", credits |-> 5] }

\* What is chosen in the enrollments form besides the student and the course:
\* the term, and the grade of the spin box.
TermInputs == {"autumn"}
GradeInputs == {Some(0)}

\* The outcome name of a failed statement: IntegrityError or another
\* SQLAlchemyError.
Failure(err, integrity, other) == IF err = "Integrity" THEN integrity ELSE other

\* StudentsTab.add_student.
add_student ==
    /\ pc = "idle"
    /\ students_tab # None
    /\ edits < MaxEdits
    /\ WithinBound("students")
    /\ \E in \in StudentInputs :
       LET full_name == strip(in.full_name)
           email == strip(in.email)
           r == InsertTx(db, "students", [full_name |-> full_name, email |-> email])
       IN  IF full_name = "" \/ email = ""
           THEN /\ last' = [op |-> "add_student", out |-> "InputRequired"]
                /\ UNCHANGED <<db, students_tab, enrollments_tab, edits>>
           ELSE /\ db' = r.db
                /\ edits' = edits + 1
                /\ IF r.ok
                   THEN /\ students_tab' = refresh_model(students_tab, r.db, "students")
                        /\ enrollments_tab' = refresh_combos(enrollments_tab, r.db)
                        /\ last' = [op |-> "add_student", out |-> "done"]
                   ELSE /\ last' = [op |-> "add_student",
                                    out |-> Failure(r.err, "InsertRejected", "InsertError")]
                        /\ UNCHANGED <<students_tab, enrollments_tab>>
    /\ UNCHANGED <<session, courses_tab, tabs, btn, pc>>

\* The rows a view can have as its current index; -1 is no valid index.
Selectable(tab) == -1 .. (Len(tab[1].model) - 1)

\* StudentsTab.delete_selected.
students_delete_selected ==
    /\ pc = "idle"
    /\ students_tab # None
    /\ edits < MaxEdits
    /\ \E row \in Selectable(students_tab) :
       LET sid == pk_value_at(students_tab[1].model, "students", row)
           r == DeleteTx(db, "students", sid)
       IN  IF row = -1
           THEN /\ last' = [op |-> "students_delete_selected", out |-> "SelectRow"]
                /\ UNCHANGED <<db, students_tab, enrollments_tab, edits>>
           ELSE /\ db' = r.db
                /\ edits' = edits + 1
                /\ IF r.ok
                   THEN /\ students_tab' = refresh_model(students_tab, r.db, "students")
                        /\ enrollments_tab' = refresh_combos(enrollments_tab, r.db)
                        /\ last' = [op |-> "students_delete_selected", out |-> "done"]
                   ELSE /\ last' = [op |-> "students_delete_selected",
                                    out |-> "DeleteError"]
                        /\ UNCHANGED <<students_tab, enrollments_tab>>
    /\ UNCHANGED <<session, courses_tab, tabs, btn, pc>>

\* CoursesTab.add_course.
add_course ==
    /\ pc = "idle"
    /\ courses_tab # None
    /\ edits < MaxEdits
    /\ WithinBound("courses")
    /\ \E in \in CourseInputs :
       LET title == strip(in.title)
           code == strip(in.code)
           r == InsertTx(db, "courses",
                         [title |-> title, credits |-> in.credits, code |-> code])
       IN  IF title = "" \/ code = ""
           THEN /\ last' = [op |-> "add_course", out |-> "InputRequired"]
                /\ UNCHANGED <<db, courses_tab, enrollments_tab, edits>>
           ELSE /\ db' = r.db
                /\ edits' = edits + 1
                /\ IF r.ok
                   THEN /\ courses_tab' = refresh_model(courses_tab, r.db, "courses")
                        /\ enrollments_tab' = refresh_combos(enrollments_tab, r.db)
                        /\ last' = [op |-> "add_course", out |-> "done"]
                   ELSE /\ last' = [op |-> "add_course",
                                    out |-> Failure(r.err, "InsertRejected", "InsertError")]
                        /\ UNCHANGED <<courses_tab, enrollments_tab>>
    /\ UNCHANGED <<session, students_tab, tabs, btn, pc>>

\* CoursesTab.delete_selected.
courses_delete_selected ==
    /\ pc = "idle"
    /\ courses_tab # None
    /\ edits < MaxEdits
    /\ \E row \in Selectable(courses_tab) :
       LET cid == pk_value_at(courses_tab[1].model, "courses", row)
           r == DeleteTx(db, "courses", cid)
       IN  IF row = -1
           THEN /\ last' = [op |-> "courses_delete_selected", out |-> "SelectRow"]
                /\ UNCHANGED <<db, courses_tab, enrollments_tab, edits>>
           ELSE /\ db' = r.db
                /\ edits' = edits + 1
                /\ IF r.ok
                   THEN /\ courses_tab' = refresh_model(courses_tab, r.db, "courses")
                        /\ enrollments_tab' = refresh_combos(enrollments_tab, r.db)
                        /\ last' = [op |-> "courses_delete_selected", out |-> "done"]
                   ELSE /\ last' = [op |-> "courses_delete_selected",
                                    out |-> Failure(r.err, "DeleteRestricted", "DeleteError")]
                        /\ UNCHANGED <<courses_tab, enrollments_tab>>
    /\ UNCHANGED <<session, students_tab, tabs, btn, pc>>

\* EnrollmentsTab.add_enrollment.
add_enrollment ==
    /\ pc = "idle"
    /\ enrollments_tab # None
    /\ edits < MaxEdits
    /\ WithinBound("enrollments")
    /\ LET tab == enrollments_tab[1]
       IN  IF tab.student_cb = {} \/ tab.course_cb = {}
           THEN /\ last' = [op |-> "add_enrollment", out |-> "AddStudentsAndCourses"]
                /\ UNCHANGED <<db, enrollments_tab, edits>>
           ELSE \E student_id \in tab.student_cb, course_id \in tab.course_cb,
                   term \in TermInputs, grade \in GradeInputs :
                LET r == InsertTx(db, "enrollments",
                                  [student_id |-> student_id, course_id |-> course_id,
                                   term |-> term, grade |-> grade])
                IN  /\ db' = r.db
                    /\ edits' = edits + 1
                    /\ IF r.ok
                       THEN /\ enrollments_tab' =
                                   refresh_model(enrollments_tab, r.db, "enrollments")
                            /\ last' = [op |-> "add_enrollment", out |-> "done"]
                       ELSE /\ last' = [op |-> "add_enrollment",
                                        out |-> Failure(r.err, "InsertRejected", "InsertError")]
                            /\ UNCHANGED enrollments_tab
    /\ UNCHANGED <<session, students_tab, courses_tab, tabs, btn, pc>>

\* EnrollmentsTab.delete_selected.
enrollments_delete_selected ==
    /\ pc = "idle"
    /\ enrollments_tab # None
    /\ edits < MaxEdits
    /\ \E row \in Selectable(enrollments_tab) :
       LET enr_id == pk_value_at(enrollments_tab[1].model, "enrollments", row)
           r == DeleteTx(db, "enrollments", enr_id)
       IN  IF row = -1
           THEN /\ last' = [op |-> "enrollments_delete_selected", out |-> "SelectRow"]
                /\ UNCHANGED <<db, enrollments_tab, edits>>
           ELSE /\ db' = r.db
                /\ edits' = edits + 1
                /\ IF r.ok
                   THEN /\ enrollments_tab' =
                               refresh_model(enrollments_tab, r.db, "enrollments")
                        /\ last' = [op |-> "enrollments_delete_selected", out |-> "done"]
                   ELSE /\ last' = [op |-> "enrollments_delete_selected",
                                    out |-> "DeleteError"]
                        /\ UNCHANGED enrollments_tab
    /\ UNCHANGED <<session, students_tab, courses_tab, tabs, btn, pc>>

\* ----------------------------------------------------------------- claims
NoDataTabs ==
    /\ students_tab = None /\ courses_tab = None /\ enrollments_tab = None
    /\ tabs = <<"setup">>

AllDataTabs ==
    students_tab # None /\ courses_tab # None /\ enrollments_tab # None

Disconnected == engine = None /\ md = None /\ tables = None

\* A step in which reset_db or add_demo ran.
SchemaOrSeedRequest == last'.op \in {"reset_db", "add_demo"}

\* The request was turned down with the "no connection" warning and touched
\* neither the database nor the controller.
Rejected ==
    /\ last'.out = "NoConnection"
    /\ UNCHANGED <<db, session, widgets, btn>>

HeldByTabs ==
    {t[1].engine : t \in {x \in {students_tab, courses_tab, enrollments_tab} : x # None}}

C3_ConnectWhileConnectedIsNoOp ==
    /\ [][(engine # None /\ last'.op = "do_connect")
            => /\ last'.out = "AlreadyConnected"
               /\ UNCHANGED <<db, session, widgets, btn>>]_vars
    /\ [][(engine' # engine /\ engine' # None)
            => engine = None /\ last'.op = "do_connect"]_vars

C3_Witness ==
    /\ last = [op |-> "do_connect", out |-> "AlreadyConnected"]
    /\ engine # None /\ AllDataTabs

\* C4: after a connect request whose make_engine call succeeded, the engine,
\* md and tables are stored and the three data tabs exist, whatever the
\* database held.
C4_ConnectGivesDataTabs ==
    (last.op = "do_connect" /\ last.out # "AlreadyConnected" /\ engine # None)
        => md # None /\ tables # None /\ AllDataTabs

C6_FailedResetChangesNothing ==
    [][(last'.op = "reset_db" /\ last'.out = "SchemaError") => db' = db]_vars

\* The three relations, empty, with fresh sequences.
CleanDb == [exists |-> TableNames, rows |-> EmptyRows, seq |-> StartSeq]

\* C7: from every database state a successful reset gives the three
\* relations with no rows, a second reset right after it gives the same
\* state, and so does every successful reset_db request.
C7_ResetIdempotent ==
    /\ [](LET once == drop_and_create_schema_sa(db, "none")
              twice == drop_and_create_schema_sa(once.db, "none")
          IN  /\ once.ok /\ once.db = CleanDb
              /\ twice.ok /\ twice.db = once.db)
    /\ [][(last'.op = "reset_db" /\ last'.out = "SchemaCreated")
            => db' = CleanDb]_vars

C7_Witness ==
    /\ last = [op |-> "reset_db", out |-> "SchemaCreated"]
    /\ db = CleanDb /\ edits > 0 /\ AllDataTabs

\* The rows a step added to relation t, without their generated ids.
AddedValues(t) ==
    {[c \in DOMAIN r \ {pk_col(t)} |-> r[c]] : r \in db'.rows[t] \ db.rows[t]}

SeqToSet(q) == {q[i] : i \in DOMAIN q}

\* C8: a seed request on a connection either commits exactly the nine demo
\* rows on top of the rows there were and reports success, or reports failure
\* with the rows of the three relations as they were.
C8_SeedAllOrNothing ==
    [][(engine # None /\ last'.op = "add_demo")
         => \/ /\ last'.out = "DemoAdded"
               /\ \A t \in TableNames :
                     /\ db.rows[t] \subseteq db'.rows[t]
                     /\ Cardinality(db'.rows[t] \ db.rows[t]) = 3
               /\ AddedValues("students") = SeqToSet(DemoStudents)
               /\ AddedValues("courses") = SeqToSet(DemoCourses)
               /\ AddedValues("enrollments") = SeqToSet(DemoEnrollments)
            \/ /\ last'.out = "DemoFailed"
               /\ db'.rows = db.rows
               /\ db'.exists = db.exists]_vars

C8_Witness ==
    /\ last = [op |-> "add_demo", out |-> "DemoFailed"]
    /\ db.rows["students"] # {} /\ db.rows["enrollments"] # {}

\* Every enrollment of d references a student and a course of d.
ReferencesResolve(d) ==
    \A e \in d.rows["enrollments"] :
        /\ \E s \in d.rows["students"] : s.student_id = e.student_id
        /\ \E c \in d.rows["courses"] : c.course_id = e.course_id

ThreeRowsEach(d) == \A t \in TableNames : Len(select_all(d, t)) = 3

\* C9: a seed request that directly follows a successful schema reset
\* succeeds; after it each relation loads exactly three rows and every
\* enrollment references a student and a course that are present.
C9_SeedAfterReset ==
    [][(last = [op |-> "reset_db", out |-> "SchemaCreated"] /\ last'.op = "add_demo")
         => /\ last'.out = "DemoAdded"
            /\ ThreeRowsEach(db')
            /\ ReferencesResolve(db')]_vars

C9_Witness ==
    /\ last = [op |-> "add_demo", out |-> "DemoAdded"]
    /\ ThreeRowsEach(db) /\ ReferencesResolve(db)
    /\ db.seq = [students |-> 4, courses |-> 4, enrollments |-> 4]
    /\ edits > 0

\* The projection a tab attribute holds is what its relation holds now.
Fresh(tab, t) == tab # None => tab[1].model = select_all(db, t)

\* C10: after a write that completed (an insert or delete of a data tab, a
\* schema reset, a seed), the projection of every existing record store
\* equals its relation.
C10_ProjectionsFollowWrites ==
    (pc = "idle" /\ last.out \in {"done", "SchemaCreated", "DemoAdded"})
        => /\ Fresh(students_tab, "students")
           /\ Fresh(courses_tab, "courses")
           /\ Fresh(enrollments_tab, "enrollments")

\* The enrollments of d that reference student s / course c.
EnrollmentsOfStudent(d, s) == {e \in d.rows["enrollments"] : e.student_id = s.student_id}
EnrollmentsOfCourse(d, c) == {e \in d.rows["enrollments"] : e.course_id = c.course_id}

\* C11: deleting a course that an enrollment references fails with an
\* integrity error and leaves every relation as it was (a courses delete
\* reported as restricted changes no row, and one that removes a course
\* removes exactly one, unreferenced, and nothing else); deleting a student
\* that enrollments reference succeeds and removes exactly that student and
\* the enrollments referencing it, and a students delete never touches the
\* courses, another student or an enrollment of another student.
C11_DeleteRestrictAndCascade ==
    /\ [](\A c \in db.rows["courses"] :
             EnrollmentsOfCourse(db, c) # {}
               => LET r == DeleteTx(db, "courses", Some(c.course_id))
                  IN  ~r.ok /\ r.err = "Integrity" /\ r.db = db)
    /\ [](\A s \in db.rows["students"] :
             EnrollmentsOfStudent(db, s) # {}
               => LET r == DeleteTx(db, "students", Some(s.student_id))
                  IN  /\ r.ok
                      /\ r.db.rows["students"] = db.rows["students"] \ {s}
                      /\ r.db.rows["enrollments"] =
                             db.rows["enrollments"] \ EnrollmentsOfStudent(db, s)
                      /\ r.db.rows["courses"] = db.rows["courses"])
    /\ [][last'.op = "courses_delete_selected"
            => LET gone == db.rows["courses"] \ db'.rows["courses"]
               IN  /\ last'.out # "done" => db'.rows = db.rows
                   /\ Cardinality(gone) <= 1
                   /\ \A c \in gone : EnrollmentsOfCourse(db, c) = {}
                   /\ db'.rows["courses"] \subseteq db.rows["courses"]
                   /\ db'.rows["students"] = db.rows["students"]
                   /\ db'.rows["enrollments"] = db.rows["enrollments"]]_vars
    /\ [][last'.op = "students_delete_selected"
            => LET gone == db.rows["students"] \ db'.rows["students"]
               IN  /\ last'.out # "done" => db'.rows = db.rows
                   /\ Cardinality(gone) <= 1
                   /\ db'.rows["students"] \subseteq db.rows["students"]
                   /\ db'.rows["courses"] = db.rows["courses"]
                   /\ db'.rows["enrollments"] \subseteq db.rows["enrollments"]
                   /\ db.rows["enrollments"] \ db'.rows["enrollments"] =
                          UNION {EnrollmentsOfStudent(db, s) : s \in gone}]_vars

\* A student with two enrollments was deleted (two students and the third
\* enrollment are left), then the delete of the course that enrollment
\* references was refused.
C11_Witness ==
    /\ last = [op |-> "courses_delete_selected", out |-> "DeleteRestricted"]
    /\ Cardinality(db.rows["students"]) = 2
    /\ Cardinality(db.rows["courses"]) = 3
    /\ Cardinality(db.rows["enrollments"]) = 1
    /\ edits = 2

\* The (student, course, term) triple of an enrollment.
Triple(e) == <<e.student_id, e.course_id, e.term>>

\* The names add_student can send: the stripped, non-blank ones.
SentNames == {strip(in.full_name) : in \in StudentInputs} \ {""}

\* The insert was refused with an integrity error and left the rows of d.
RefusedUnchanged(r, d) == ~r.ok /\ r.err = "Integrity" /\ r.db.rows = d.rows

\* C12: an insert of a student whose email is already present, and an insert
\* of an enrollment whose (student, course, term) triple is already present,
\* is refused with an integrity error and leaves the rows as they were; an
\* add_student or add_enrollment that reports the refusal has changed no
\* row; so in every reachable state the students' emails are pairwise
\* distinct and so are the enrollments' triples.
C12_UniqueViolationRejected ==
    /\ [](\A o \in db.rows["students"] : \A n \in SentNames :
             RefusedUnchanged(
                 InsertTx(db, "students", [full_name |-> n, email |-> o.email]), db))
    /\ [](\A o \in db.rows["enrollments"] : \A g \in GradeInputs :
             RefusedUnchanged(
                 InsertTx(db, "enrollments",
                          [student_id |-> o.student_id, course_id |-> o.course_id,
                           term |-> o.term, grade |-> g]), db))
    /\ [][(last'.op \in {"add_student", "add_enrollment"}
             /\ last'.out = "InsertRejected") => db'.rows = db.rows]_vars
    /\ [](\A a, b \in db.rows["students"] : a.email = b.email => a = b)
    /\ [](\A a, b \in db.rows["enrollments"] : Triple(a) = Triple(b) => a = b)

\* After the seed, add_enrollment was refused although every student and
\* course the combos offer is present and the term and grade pass the
\* checks: the triple was there already.  The seeded email is there too.
C12_Witness ==
    /\ last = [op |-> "add_enrollment", out |-> "InsertRejected"]
    /\ ThreeRowsEach(db) /\ ReferencesResolve(db)
    /\ enrollments_tab[1].student_cb = {r.student_id : r \in db.rows["students"]}
    /\ enrollments_tab[1].course_cb = {r.course_id : r \in db.rows["courses"]}
    /\ db.seq["enrollments"] = 5
    /\ \E o \in db.rows["students"] : o.email = "ivan.petrov@example.com"
    /\ \E o \in db.rows["enrollments"] : Triple(o) = <<1, 1, "autumn">>

\* A do_connect step in which make_engine was called and raised: it logs
\* the connection error, no engine has been made, and the database, the
\* controller, the tabs and the buttons are as they were.
FailedFactoryChangesNothing ==
    [][(last'.op = "do_connect" /\ engine = None /\ made' = made)
         => /\ last'.out = "ConnectError"
            /\ Disconnected' /\ NoDataTabs'
            /\ UNCHANGED <<db, session, widgets, btn>>]_vars

\* C13: a connect request whose make_engine call fails leaves the controller
\* disconnected with nothing stored, no data tab and the buttons as they
\* were, and logs the connection error; and whenever do_connect has logged a
\* connection error, the controller is disconnected: engine, md and tables
\* are None, there is no data tab and the buttons are those of the
\* disconnected state.
C13_ConnectErrorLeavesDisconnected ==
    /\ FailedFactoryChangesNothing
    /\ [](last = [op |-> "do_connect", out |-> "ConnectError"]
            => Disconnected /\ NoDataTabs /\ btn = ButtonsDisconnected)

\* rows is relation t of d, each row once, in strictly ascending order of
\* the primary key.
IsLoadOf(rows, d, t) ==
    /\ SeqToSet(rows) = d.rows[t]
    /\ \A i, j \in DOMAIN rows : i < j => rows[i][pk_col(t)] < rows[j][pk_col(t)]

\* The indexes asked of pk_value_at: every row, and two beyond each end.
Probes(rows) == (0 - 2) .. (Len(rows) + 1)

\* pk_value_at gives the key of the i-th row inside the bounds and None
\* outside them.
KeysByIndex(rows, t) ==
    \A i \in Probes(rows) :
        pk_value_at(rows, t, i) =
            IF 0 <= i /\ i < Len(rows) THEN Some(rows[i + 1][pk_col(t)]) ELSE None

\* The rows the tab attribute holds, <<>> when there is no tab.
Held(tab) == IF tab = None THEN <<>> ELSE tab[1].model

\* The tab attribute went from old to new with its rows loaded anew.
Reloaded(old, new) == new # None /\ (old = None \/ old[1].model # new[1].model)

\* C14: a load of an existing relation holds exactly its rows in strictly
\* ascending primary-key order, and so do the rows of a tab whenever a step
\* has loaded them; on loaded and on held rows pk_value_at(i) is the key of
\* the i-th row for 0 <= i < rowCount and None for every other index
\* (negative ones and rowCount included).
C14_LoadOrderedAndKeysByIndex ==
    /\ [](\A t \in db.exists :
             LET rows == refresh(<<>>, db, t)
             IN  IsLoadOf(rows, db, t) /\ KeysByIndex(rows, t))
    /\ [][/\ Reloaded(students_tab, students_tab')
              => IsLoadOf(students_tab'[1].model, db', "students")
          /\ Reloaded(courses_tab, courses_tab')
              => IsLoadOf(courses_tab'[1].model, db', "courses")
          /\ Reloaded(enrollments_tab, enrollments_tab')
              => IsLoadOf(enrollments_tab'[1].model, db', "enrollments")]_vars
    /\ [](/\ KeysByIndex(Held(students_tab), "students")
          /\ KeysByIndex(Held(courses_tab), "courses")
          /\ KeysByIndex(Held(enrollments_tab), "enrollments"))

\* The second of three students was deleted: the tab holds the students 1
\* and 3 in this order, index 1 gives key 3, indexes -1 and 2 give None.
C14_Witness ==
    /\ last = [op |-> "students_delete_selected", out |-> "done"]
    /\ students_tab # None
    /\ LET rows == students_tab[1].model
       IN  /\ Len(rows) = 2
           /\ IsLoadOf(rows, db, "students")
           /\ pk_value_at(rows, "students", 0) = Some(1)
           /\ pk_value_at(rows, "students", 1) = Some(3)
           /\ pk_value_at(rows, "students", 2) = None
           /\ pk_value_at(rows, "students", 0 - 1) = None


Next ==
    \/ do_connect
    \/ do_disconnect
    \/ dispose
    \/ clear_session
    \/ reset_db
    \/ add_demo
    \/ add_student
    \/ students_delete_selected
    \/ add_course
    \/ courses_delete_selected
    \/ add_enrollment
    \/ enrollments_delete_selected

Spec == Init /\ [][Next]_vars

====
